---- MODULE Spec2Model ----
(***************************************************************************)
(* Model of forwarder.py: an MQTT source that parses each inbound message  *)
(* into (node_name, measurement_name, value) and hands it to every         *)
(* registered message store.                                               *)
(*                                                                         *)
(* Strings are sequences of one-character strings, so that the topic       *)
(* regular expression and float() are computed character by character.     *)
(***************************************************************************)
EXTENDS Integers, Sequences, FiniteSets, TLC

(***************************************************************************)
(* Bounds of the model.                                                    *)
(***************************************************************************)
\* longest topic drawn from TopicAlphabet
MaxTopicLen == 5
\* longest payload drawn from PayloadAlphabet
MaxPayloadLen == 3
\* most messages in flight in a scenario run
MaxMsgs == 2
\* most register_store calls
MaxStores == 2
\* most successful connects of the transport (first connect and reconnects)
MaxConnects == 2

(***************************************************************************)
(* Characters and strings.                                                 *)
(***************************************************************************)
Digits == {"0", "1", "2", "3", "4", "5", "6", "7", "8", "9"}

Letters ==
  {"a", "b", "c", "d", "e", "f", "g", "h", "i", "j", "k", "l", "m",
   "n", "o", "p", "q", "r", "s", "t", "u", "v", "w", "x", "y", "z",
   "A", "B", "C", "D", "E", "F", "G", "H", "I", "J", "K", "L", "M",
   "N", "O", "P", "Q", "R", "S", "T", "U", "V", "W", "X", "Y", "Z"}

\* the class \w of the re module (no re.UNICODE flag): [a-zA-Z0-9_]
WordChars == Letters \cup Digits \cup {"_"}

IsWord(s) == Len(s) >= 1 /\ \A i \in 1..Len(s) : s[i] \in WordChars

SeqsUpTo(S, n) == UNION {[1..k -> S] : k \in 0..n}

Slice(s, i, j) == [k \in 1..(j - i + 1) |-> s[i + k - 1]]

\* length of the longest run of word characters of s that starts at index i
RECURSIVE WordRun(_, _)
WordRun(s, i) ==
  IF i <= Len(s) /\ s[i] \in WordChars THEN 1 + WordRun(s, i + 1) ELSE 0

(***************************************************************************)
(* regex.match(msg.topic) for /(?P<node_name>\w+)/(?P<measurement_name>\w+)/? *)
(* match() anchors the pattern at the start of the topic only.  Both \w+   *)
(* are greedy; the first must be followed by "/", which no shorter run     *)
(* can reach, and the trailing /? matches the empty string, so the match   *)
(* never backtracks into a shorter run.                                    *)
(***************************************************************************)
NoMatch == [matched |-> FALSE, node_name |-> <<>>, measurement_name |-> <<>>]

\* regex_match with a measurement group that runs to the end of the topic
regex_match_rest(topic) ==
  IF Len(topic) >= 1 /\ topic[1] = "/"
  THEN LET n == WordRun(topic, 2)
       IN IF n >= 1 /\ Len(topic) >= n + 2 /\ topic[n + 2] = "/"
          THEN LET m == WordRun(topic, n + 3)
               IN IF m >= 1
                  THEN [matched |-> TRUE,
                        node_name |-> Slice(topic, 2, n + 1),
                        measurement_name |-> Slice(topic, n + 3, Len(topic))]
                  ELSE NoMatch
          ELSE NoMatch
  ELSE NoMatch

regex_match(topic) ==
  IF Len(topic) >= 1 /\ topic[1] = "/"
  THEN LET n == WordRun(topic, 2)
       IN IF n >= 1 /\ Len(topic) >= n + 2 /\ topic[n + 2] = "/"
          THEN LET m == WordRun(topic, n + 3)
               IN IF m >= 1
                  THEN [matched |-> TRUE,
                        node_name |-> Slice(topic, 2, n + 1),
                        measurement_name |-> Slice(topic, n + 3, n + m + 2)]
                  ELSE NoMatch
          ELSE NoMatch
  ELSE NoMatch

(***************************************************************************)
(* float(value) on a byte string: surrounding white space is stripped,     *)
(* then an optional sign and a decimal numeral with at most one point and  *)
(* at least one digit.  The number is kept as mant * 10^exp with mant not  *)
(* divisible by 10 (0 is mant = 0, exp = 0), so equal numbers are equal    *)
(* values.  Exponents, inf and nan need characters that no payload of the  *)
(* model contains.                                                         *)
(***************************************************************************)
DigitVal(c) ==
  CASE c = "0" -> 0 [] c = "1" -> 1 [] c = "2" -> 2 [] c = "3" -> 3
    [] c = "4" -> 4 [] c = "5" -> 5 [] c = "6" -> 6 [] c = "7" -> 7
    [] c = "8" -> 8 [] c = "9" -> 9

RECURSIVE LStrip(_)
LStrip(s) == IF Len(s) >= 1 /\ s[1] = " " THEN LStrip(Tail(s)) ELSE s

RECURSIVE RStrip(_)
RStrip(s) ==
  IF Len(s) >= 1 /\ s[Len(s)] = " " THEN RStrip(SubSeq(s, 1, Len(s) - 1)) ELSE s

Strip(s) == RStrip(LStrip(s))

\* the integer written by a sequence of digits
RECURSIVE DigitsVal(_)
DigitsVal(s) ==
  IF s = <<>> THEN 0
  ELSE 10 * DigitsVal(SubSeq(s, 1, Len(s) - 1)) + DigitVal(s[Len(s)])

RECURSIVE Normalise(_, _)
Normalise(mant, exp) ==
  IF mant = 0 THEN [mant |-> 0, exp |-> 0]
  ELSE IF mant % 10 = 0 THEN Normalise(mant \div 10, exp + 1)
  ELSE [mant |-> mant, exp |-> exp]

FloatValue(mant, exp) ==
  LET n == Normalise(mant, exp)
  IN [kind |-> "float", mant |-> n.mant, exp |-> n.exp, raw |-> <<>>]

StrValue(payload) == [kind |-> "str", mant |-> 0, exp |-> 0, raw |-> payload]

\* the body of a numeral once white space and sign are gone
Unsigned(s) ==
  LET points == {i \in 1..Len(s) : s[i] = "."}
      digits == {i \in 1..Len(s) : s[i] \in Digits}
  IN IF /\ points \cup digits = 1..Len(s)
        /\ Cardinality(points) <= 1
        /\ digits # {}
     THEN LET ds == SelectSeq(s, LAMBDA c : c \in Digits)
              frac == IF points = {} THEN 0
                      ELSE Len(s) - (CHOOSE i \in points : TRUE)
          IN [ok |-> TRUE, mant |-> DigitsVal(ds), exp |-> 0 - frac]
     ELSE [ok |-> FALSE, mant |-> 0, exp |-> 0]

\* float(payload): ok = FALSE stands for ValueError
float(payload) ==
  LET s == Strip(payload)
      neg == Len(s) >= 1 /\ s[1] = "-"
      signed == Len(s) >= 1 /\ s[1] \in {"-", "+"}
      u == Unsigned(IF signed THEN Tail(s) ELSE s)
  IN IF u.ok
     THEN [ok |-> TRUE,
           value |-> FloatValue(IF neg THEN 0 - u.mant ELSE u.mant, u.exp)]
     ELSE [ok |-> FALSE, value |-> StrValue(payload)]

\* coerce without the conversion: the payload is passed on as it came
coerce_raw(payload) == StrValue(payload)

\* lines 81-85: value = msg.payload; try float(value); except ValueError: pass
coerce(payload) ==
  LET f == float(payload)
  IN IF f.ok THEN f.value ELSE StrValue(payload)

(***************************************************************************)
(* The strings of the end-to-end scenarios, and the inputs of the model.   *)
(***************************************************************************)
LivingRoom == <<"l", "i", "v", "i", "n", "g", "-", "r", "o", "o", "m">>
Kitchen == <<"k", "i", "t", "c", "h", "e", "n">>
Garage == <<"g", "a", "r", "a", "g", "e">>
Temperature == <<"t", "e", "m", "p", "e", "r", "a", "t", "u", "r", "e">>
Status == <<"s", "t", "a", "t", "u", "s">>
Raw == <<"r", "a", "w">>
BadTopic == <<"b", "a", "d", "-", "t", "o", "p", "i", "c">>
Payload21_5 == <<"2", "1", ".", "5">>
Payload19_0 == <<"1", "9", ".", "0">>
PayloadOk == <<"o", "k">>

TopicOf(node_name, measurement_name) ==
  <<"/">> \o node_name \o <<"/">> \o measurement_name

Msg(topic, payload) == [topic |-> topic, payload |-> payload]

\* messages of scenario runs: up to MaxMsgs of them are delivered in a run
ScenarioMsgs ==
  {Msg(TopicOf(LivingRoom, Temperature), Payload21_5),
   Msg(TopicOf(LivingRoom, Status), PayloadOk),
   Msg(TopicOf(Kitchen, Temperature), Payload19_0),
   Msg(TopicOf(Kitchen, Status), PayloadOk),
   Msg(TopicOf(Kitchen, Temperature) \o <<"/">> \o Raw, Payload19_0),
   Msg(TopicOf(Garage, Temperature), Payload21_5),
   Msg(BadTopic, Payload21_5)}

\* node lists of scenario runs (--node-name, one or more)
ScenarioNodes == {<<LivingRoom>>, <<Kitchen>>}

\* messages of probe runs: one message, with every topic or every payload
\* over a small alphabet
TopicAlphabet == {"a", "b", "/", "-"}
PayloadAlphabet == {"1", "0", ".", "-", " ", "k"}
ProbeNode == <<"a">>
ProbeMeasurement == <<"b">>
ProbePayload == <<"1", ".", "5">>
ProbeNodes == <<ProbeNode, ProbeMeasurement>>

ProbeMsgs ==
  {Msg(t, ProbePayload) : t \in SeqsUpTo(TopicAlphabet, MaxTopicLen)}
  \cup {Msg(TopicOf(ProbeNode, ProbeMeasurement), p) :
          p \in SeqsUpTo(PayloadAlphabet, MaxPayloadLen)}

\* the message stores a run can register: the InfluxStore of main(), and
\* another implementation of MessageStore
Stores == {"InfluxStore", "MessageStore"}

NoMsg == [seq |-> 0, nreg |-> 0, topic |-> <<>>, payload |-> <<>>, node_name |-> <<>>,
          measurement_name |-> <<>>, value |-> StrValue(<<>>)]

(***************************************************************************)
(* State.                                                                  *)
(***************************************************************************)
VARIABLES
  node_names,   \* MQTTSource.node_names, the configured node names
  phase,        \* main(): "setup" before start(), "loop" inside
                \* loop_forever(), "dead" once an exception has left main()
  has_stores,   \* hasattr(self, '_stores')
  _stores,      \* MessageSource._stores
  registered,   \* the arguments of the register_store calls so far, in order
  held,         \* the list a caller of the stores accessor holds: "none",
                \* "copy" (a list of its own) or "self" (self._stores itself)
  copy,         \* the items of the caller's own list
  mutated,      \* a caller has mutated a list the accessor returned
  connect_failed, \* client.connect of start() has raised
  connected,    \* the transport has a session with the broker
  connects,     \* number of on_connect calls so far
  subs,         \* client.subscribe calls of the current session, in order
  delivered,    \* number of on_message calls begun so far
  cur,          \* the message on_message is dispatching, NoMsg when idle;
                \* nreg is the number of register_store calls made before it
  it_ref,       \* the list the loop of line 90 iterates: "copy" or "self"
  it_items,     \* the items of that list when it is a copy
  idx,          \* 1-based position of the loop of line 90
  calls,        \* every store_msg invocation so far, in order
  writes,       \* every write_points call so far, in order
  handled       \* every on_message call that has ended, in order

vars == <<node_names, phase, has_stores, _stores, registered, held, copy,
          mutated, connect_failed, connected, connects, subs, delivered, cur, it_ref, it_items, idx,
          calls, writes, handled>>

source_vars == <<has_stores, _stores, registered, held, copy, mutated>>
transport_vars == <<connect_failed, connected, connects, subs>>
dispatch_vars == <<delivered, cur, it_ref, it_items, idx, calls, writes, handled>>

Init ==
  /\ node_names \in ScenarioNodes \cup {ProbeNodes}
  /\ phase = "setup"
  /\ has_stores = FALSE
  /\ _stores = <<>>
  /\ registered = <<>>
  /\ held = "none"
  /\ copy = <<>>
  /\ mutated = FALSE
  /\ connect_failed = FALSE
  /\ connected = FALSE
  /\ connects = 0
  /\ subs = <<>>
  /\ delivered = 0
  /\ cur = NoMsg
  /\ it_ref = "copy"
  /\ it_items = <<>>
  /\ idx = 1
  /\ calls = <<>>
  /\ writes = <<>>
  /\ handled = <<>>

(***************************************************************************)
(* MessageSource.                                                          *)
(***************************************************************************)
\* register_store skipping a store that is already in the list
appended_once(list, store) ==
  IF \E i \in 1..Len(list) : list[i] = store THEN list ELSE Append(list, store)

\* line 46: self._stores.append(store)
appended(list, store) == Append(list, store)

\* lines 43-46, called by main() before start()
register_store(store) ==
  /\ phase = "setup"
  /\ Len(registered) < MaxStores
  /\ has_stores' = TRUE
  /\ _stores' = appended(IF has_stores THEN _stores ELSE <<>>, store)
  /\ registered' = Append(registered, store)
  /\ UNCHANGED <<node_names, phase, held, copy, mutated>>
  /\ UNCHANGED transport_vars
  /\ UNCHANGED dispatch_vars

\* the accessor returning self._stores itself
stores_alias == [ref |-> "self", items |-> _stores]

\* lines 48-51: list(self._stores) is a new list with the same items
stores == [ref |-> "copy", items |-> _stores]

\* a caller in main() reads source.stores; without _stores the read raises
\* AttributeError, which nothing in main() catches
read_stores ==
  /\ phase = "setup"
  /\ IF has_stores
     THEN /\ held' = stores.ref
          /\ copy' = IF stores.ref = "copy" THEN stores.items ELSE <<>>
          /\ UNCHANGED phase
     ELSE /\ phase' = "dead"
          /\ UNCHANGED <<held, copy>>
  /\ UNCHANGED <<node_names, has_stores, _stores, registered, mutated>>
  /\ UNCHANGED transport_vars
  /\ UNCHANGED dispatch_vars

\* what a caller can do to a list: append, remove, reorder, clear
Mutations(items) ==
  {Append(items, s) : s \in {x \in Stores : Len(items) <= MaxStores}}
  \cup {SubSeq(items, 1, i - 1) \o SubSeq(items, i + 1, Len(items)) :
          i \in 1..Len(items)}
  \cup {[i \in 1..Len(items) |-> items[Len(items) + 1 - i]]}
  \cup {<<>>}

\* the caller mutates the list the accessor returned
mutate_returned ==
  /\ phase = "setup"
  /\ held # "none"
  /\ \E new \in Mutations(IF held = "self" THEN _stores ELSE copy) :
       /\ new # (IF held = "self" THEN _stores ELSE copy)
       /\ IF held = "self"
          THEN _stores' = new /\ UNCHANGED copy
          ELSE copy' = new /\ UNCHANGED _stores
  /\ mutated' = TRUE
  /\ UNCHANGED <<node_names, phase, has_stores, registered, held>>
  /\ UNCHANGED transport_vars
  /\ UNCHANGED dispatch_vars

(***************************************************************************)
(* MQTTSource.start and the transport's loop.  The transport is an         *)
(* external collaborator: it calls one callback at a time from the thread  *)
(* blocked in loop_forever(), and an exception raised by a callback leaves *)
(* loop_forever(), start() and main().                                     *)
(***************************************************************************)
\* start() going on to loop_forever() although client.connect raised
after_connect_ignored(ok) == "loop"

\* lines 97-102: an exception of client.connect leaves start() and main()
\* before line 102, otherwise loop_forever() is entered
after_connect(ok) == IF ok THEN "loop" ELSE "dead"

\* lines 96-102: client.connect raises (nothing catches it), or
\* loop_forever() is entered; main() touches no list of its own afterwards
start ==
  /\ phase = "setup"
  /\ \E ok \in BOOLEAN :
       /\ phase' = after_connect(ok)
       /\ connect_failed' = ~ok
  /\ held' = "none"
  /\ copy' = <<>>
  /\ UNCHANGED <<node_names, has_stores, _stores, registered, mutated>>
  /\ UNCHANGED <<connected, connects, subs>>
  /\ UNCHANGED dispatch_vars

\* a transport that calls a callback while another is running
Idle_threaded == TRUE

\* the loop calls a callback only when no callback is running
Idle == cur = NoMsg

\* the phase of main() after a callback ended with ret
after_callback(ret) == IF ret = "return" THEN "loop" ELSE "dead"

\* line 70
subscribe_topic(node_name) == <<"/">> \o node_name \o <<"/", "#">>

\* on_connect subscribing on the first connect only
on_connect_once ==
  /\ phase = "loop"
  /\ cur = NoMsg
  /\ ~connected
  /\ connects < MaxConnects
  /\ connected' = TRUE
  /\ connects' = connects + 1
  /\ subs' = IF connects = 0
             THEN [i \in 1..Len(node_names) |-> subscribe_topic(node_names[i])]
             ELSE <<>>
  /\ UNCHANGED <<node_names, phase, connect_failed>>
  /\ UNCHANGED source_vars
  /\ UNCHANGED dispatch_vars

\* lines 66-72, called on every successful connect
on_connect ==
  /\ phase = "loop"
  /\ Idle
  /\ ~connected
  /\ connects < MaxConnects
  /\ connected' = TRUE
  /\ connects' = connects + 1
  /\ subs' = [i \in 1..Len(node_names) |-> subscribe_topic(node_names[i])]
  /\ UNCHANGED <<node_names, phase, connect_failed>>
  /\ UNCHANGED source_vars
  /\ UNCHANGED dispatch_vars

\* the session is lost; the transport reconnects by itself
disconnect ==
  /\ phase = "loop"
  /\ Idle
  /\ connected
  /\ connected' = FALSE
  /\ subs' = <<>>
  /\ UNCHANGED <<node_names, phase, connect_failed, connects>>
  /\ UNCHANGED source_vars
  /\ UNCHANGED dispatch_vars

(***************************************************************************)
(* Message stores.                                                         *)
(***************************************************************************)
\* what a store's own work can do when store_msg is called: for InfluxStore
\* the outcome of write_points, for another MessageStore that of its body
Outcomes == {"ok", "ConnectionError", "Error"}

\* a point whose value field is made a number: 0.0 for a string
influx_msg_numeric(node_name, measurement_name, value) ==
  [measurement |-> measurement_name,
   tags |-> [sensor_node |-> node_name],
   fields |-> [value |-> IF value.kind = "float" THEN value
                         ELSE FloatValue(0, 0)]]

\* lines 26-34
influx_msg(node_name, measurement_name, value) ==
  [measurement |-> measurement_name,
   tags |-> [sensor_node |-> node_name],
   fields |-> [value |-> value]]

\* InfluxStore.store_msg without the except clause
InfluxStore_store_msg_uncaught(outcome) ==
  IF outcome = "ok" THEN "return" ELSE outcome

\* InfluxStore.store_msg with a clause that catches every exception
InfluxStore_store_msg_catch_all(outcome) == "return"

\* lines 36-39: how InfluxStore.store_msg ends when write_points ends with
\* outcome: only requests.exceptions.ConnectionError is caught
InfluxStore_store_msg(outcome) ==
  IF outcome \in {"ok", "ConnectionError"} THEN "return" ELSE outcome

\* InfluxStore.store_msg writing the point again after a ConnectionError
InfluxStore_writes_retry(call, node_name, measurement_name, value, outcome) ==
  LET write == [call |-> call,
                points |-> <<influx_msg(node_name, measurement_name, value)>>,
                outcome |-> outcome,
                logged |-> outcome = "ConnectionError"]
  IN IF outcome = "ConnectionError" THEN <<write, write>> ELSE <<write>>

\* lines 26-39: the write_points calls one InfluxStore.store_msg makes, as
\* the call-th store_msg invocation of the run: one call with a list of one
\* point; logger.exception runs only in the except clause of line 38
InfluxStore_writes(call, node_name, measurement_name, value, outcome) ==
  <<[call |-> call,
     points |-> <<influx_msg(node_name, measurement_name, value)>>,
     outcome |-> outcome,
     logged |-> outcome = "ConnectionError"]>>

\* lines 13-15: another MessageStore catches nothing
MessageStore_store_msg(outcome) ==
  IF outcome = "ok" THEN "return" ELSE outcome

store_msg(store, outcome) ==
  IF store = "InfluxStore" THEN InfluxStore_store_msg(outcome)
  ELSE MessageStore_store_msg(outcome)

(***************************************************************************)
(* on_message, lines 74-91.                                                *)
(***************************************************************************)
\* the messages the transport can deliver next in a run of the model: one
\* probe message, or up to MaxMsgs scenario messages
Inbound ==
  IF node_names = ProbeNodes
  THEN IF delivered = 0 THEN ProbeMsgs ELSE {}
  ELSE IF delivered < MaxMsgs THEN ScenarioMsgs ELSE {}

Contains(seq, x) == \E i \in 1..Len(seq) : seq[i] = x

Handled(seq, nreg, m, matched, warned, ret) ==
  [seq |-> seq, nreg |-> nreg, topic |-> m.topic, payload |-> m.payload,
   matched |-> matched, warned |-> warned, ret |-> ret]

\* on_message ends with ret: the loop of line 90 is over
end_on_message(h) ==
  /\ handled' = Append(handled, h)
  /\ phase' = after_callback(h.ret)
  /\ cur' = NoMsg
  /\ it_ref' = "copy"
  /\ it_items' = <<>>
  /\ idx' = 1

\* lines 87-88: the warning reads self.node_name, an attribute MQTTSource
\* never sets (__init__ sets node_names), so building its arguments raises
node_check(node_name) ==
  IF Contains(node_names, node_name) THEN "return" ELSE "AttributeError"

\* lines 74-90: from the call up to the first store_msg
on_message(m) ==
  /\ phase = "loop"
  /\ connected
  /\ Idle
  /\ m \in Inbound
  /\ delivered' = delivered + 1
  /\ LET match == regex_match(m.topic)
         seq == delivered + 1
         nreg == Len(registered)
     IN IF ~match.matched
        THEN \* lines 78-80
             end_on_message(Handled(seq, nreg, m, FALSE, TRUE, "return"))
        ELSE IF node_check(match.node_name) # "return"
        THEN end_on_message(
               Handled(seq, nreg, m, TRUE, FALSE,
                       node_check(match.node_name)))
        ELSE IF ~has_stores
        THEN \* line 90: self.stores reads the missing self._stores
             end_on_message(
               Handled(seq, nreg, m, TRUE, FALSE, "AttributeError"))
        ELSE IF stores.items = <<>>
        THEN end_on_message(Handled(seq, nreg, m, TRUE, FALSE, "return"))
        ELSE /\ cur' = [seq |-> seq, nreg |-> nreg, topic |-> m.topic, payload |-> m.payload,
                        node_name |-> match.node_name,
                        measurement_name |-> match.measurement_name,
                        value |-> coerce(m.payload)]
             /\ it_ref' = stores.ref
             /\ it_items' = IF stores.ref = "copy" THEN stores.items ELSE <<>>
             /\ idx' = 1
             /\ UNCHANGED <<phase, handled>>
  /\ UNCHANGED <<node_names, calls, writes>>
  /\ UNCHANGED source_vars
  /\ UNCHANGED transport_vars

\* the list the loop of line 90 iterates
Iterated == IF it_ref = "self" THEN _stores ELSE it_items

\* the register_store calls a store can make on the source from inside its
\* store_msg: InfluxStore makes none (lines 25-39), another MessageStore may
\* register one more store
Reentrant(store) ==
  IF store = "MessageStore" /\ Len(registered) < MaxStores
  THEN {<<>>} \cup {<<s>> : s \in Stores}
  ELSE {<<>>}

\* line 91, one turn of the loop, and the end of on_message after the last;
\* the loop looks for its next item once store_msg has returned
dispatch ==
  /\ phase = "loop"
  /\ cur # NoMsg
  /\ idx <= Len(Iterated)
  /\ LET store == Iterated[idx]
         m == Msg(cur.topic, cur.payload)
     IN \E outcome \in Outcomes : \E reg \in Reentrant(store) :
          /\ calls' = Append(calls,
                             [msg |-> cur.seq, store |-> store,
                              node_name |-> cur.node_name,
                              measurement_name |-> cur.measurement_name,
                              value |-> cur.value,
                              ret |-> store_msg(store, outcome)])
          /\ writes' = IF store = "InfluxStore"
                       THEN writes \o InfluxStore_writes(Len(calls) + 1,
                                                         cur.node_name,
                                                         cur.measurement_name,
                                                         cur.value, outcome)
                       ELSE writes
          /\ _stores' = IF reg = <<>> THEN _stores
                        ELSE appended(_stores, reg[1])
          /\ registered' = registered \o reg
          /\ LET ret == store_msg(store, outcome)
                 after == IF it_ref = "self" THEN _stores' ELSE it_items
             IN IF ret = "return" /\ idx + 1 <= Len(after)
                THEN /\ idx' = idx + 1
                     /\ UNCHANGED <<phase, cur, it_ref, it_items, handled>>
                ELSE end_on_message(
                       Handled(cur.seq, cur.nreg, m, TRUE, FALSE, ret))
  /\ UNCHANGED <<node_names, delivered>>
  /\ UNCHANGED <<has_stores, held, copy, mutated>>
  /\ UNCHANGED transport_vars

Next ==
  \/ \E store \in Stores : register_store(store)
  \/ read_stores
  \/ mutate_returned
  \/ start
  \/ on_connect
  \/ disconnect
  \/ \E m \in (IF phase = "loop" /\ connected /\ Idle THEN Inbound ELSE {}) :
       on_message(m)
  \/ dispatch

Spec == Init /\ [][Next]_vars

(***************************************************************************)
(* Vocabulary of the properties.                                           *)
(***************************************************************************)
\* topic is /<node>/<measurement> or /<node>/<measurement>/<anything>, with a
\* node of n and a measurement of m word characters
WellFormedAs(topic, n, m) ==
  /\ n >= 1 /\ m >= 1
  /\ Len(topic) >= n + m + 2
  /\ topic[1] = "/"
  /\ \A k \in 2..(n + 1) : topic[k] \in WordChars
  /\ topic[n + 2] = "/"
  /\ \A k \in (n + 3)..(n + m + 2) : topic[k] \in WordChars
  /\ Len(topic) > n + m + 2 => topic[n + m + 3] = "/"

WellFormed(topic) ==
  \E n \in 1..Len(topic) : \E m \in 1..Len(topic) : WellFormedAs(topic, n, m)

\* the store_msg invocations of the i-th delivered message
CallsOf(i) == SelectSeq(calls, LAMBDA c : c.msg = i)

\* the i-th delivered message, handled or being dispatched
InboundMsg(i) == IF i <= Len(handled) THEN handled[i] ELSE cur

\* a store_msg invocation of the i-th message raised
StoreRaised(i) == \E k \in 1..Len(calls) : calls[k].msg = i /\ calls[k].ret # "return"

\* the stores registered when the i-th message was delivered
RegisteredAt(i) == SubSeq(registered, 1, InboundMsg(i).nreg)

\* the i-th message reached every store registered before it, in
\* registration order, with the one record (node_name, measurement_name,
\* value)
FannedOut(i, node_name, measurement_name, value) ==
  /\ Len(CallsOf(i)) = Len(RegisteredAt(i))
  /\ \A k \in 1..Len(CallsOf(i)) :
       /\ CallsOf(i)[k].store = RegisteredAt(i)[k]
       /\ CallsOf(i)[k].node_name = node_name
       /\ CallsOf(i)[k].measurement_name = measurement_name
       /\ CallsOf(i)[k].value = value

\* C1: once on_message is over for a message with a well-formed topic, with
\* N >= 1 stores registered and no store raising, there have been exactly N
\* store_msg invocations for it, one per store in registration order, all
\* with the same arguments.
C1_FanOut ==
  \A i \in 1..Len(handled) :
    (/\ WellFormed(handled[i].topic)
     /\ handled[i].nreg >= 1
     /\ ~StoreRaised(i))
    => \E c \in {calls[k] : k \in 1..Len(calls)} :
         FannedOut(i, c.node_name, c.measurement_name, c.value)

\* C2: when a store raises a connectivity failure from store_msg, the
\* stores registered after it are still invoked for that message and
\* on_message returns normally.
C2_FailureIsolated ==
  \A i \in 1..Len(handled) :
    (\E k \in 1..Len(CallsOf(i)) : CallsOf(i)[k].ret = "ConnectionError")
    => /\ handled[i].ret = "return"
       /\ Len(CallsOf(i)) = Len(RegisteredAt(i))

\* C3: a message with a well-formed topic whose node name is not configured
\* gets a warning and is still forwarded to every registered store; no
\* error is raised.
C3_UnknownNodeForwarded ==
  \A i \in 1..Len(handled) :
    LET match == regex_match(handled[i].topic)
    IN (/\ WellFormed(handled[i].topic)
        /\ ~Contains(node_names, match.node_name)
        /\ handled[i].nreg >= 1
        /\ ~StoreRaised(i))
       => /\ handled[i].warned
          /\ handled[i].ret = "return"
          /\ FannedOut(i, match.node_name, match.measurement_name,
                       coerce(handled[i].payload))

\* C4: a message on the topic /{node_name}/{measurement} of a configured
\* node name reaches every registered store with that node name; with node
\* names ["living-room"], /living-room/temperature with payload "21.5"
\* arrives as store_msg("living-room", "temperature", 21.5).
C4_ConfiguredNodeForwarded ==
  \A i \in 1..Len(handled) : \A j \in 1..Len(node_names) :
    LET topic == handled[i].topic
        prefix == <<"/">> \o node_names[j] \o <<"/">>
        measurement == SubSeq(topic, Len(prefix) + 1, Len(topic))
    IN (/\ Len(topic) > Len(prefix)
        /\ SubSeq(topic, 1, Len(prefix)) = prefix
        /\ IsWord(measurement)
        /\ handled[i].nreg >= 1
        /\ ~StoreRaised(i))
       => /\ FannedOut(i, node_names[j], measurement, coerce(handled[i].payload))
          /\ (/\ node_names[j] = LivingRoom
              /\ measurement = Temperature
              /\ handled[i].payload = Payload21_5)
             => FannedOut(i, LivingRoom, Temperature, FloatValue(215, 0 - 1))

\* C5: for a topic /<node>/<measurement> or /<node>/<measurement>/<anything>
\* every record passed to a store has exactly <node> as node_name and
\* exactly <measurement> as measurement_name, whatever follows them.  (calls
\* only grows at its end, so every invocation is the last one in the state
\* that follows it.)
C5_ParseExact ==
  calls # <<>>
  => LET call == calls[Len(calls)]
         topic == InboundMsg(call.msg).topic
     IN \A n \in 1..Len(topic) :
          (n + 2 <= Len(topic) /\ topic[n + 2] = "/")
          => \A m \in 1..(Len(topic) - n - 2) :
               WellFormedAs(topic, n, m)
               => /\ call.node_name = SubSeq(topic, 2, n + 1)
                  /\ call.measurement_name = SubSeq(topic, n + 3, n + m + 2)

\* a record was passed for a topic with further path segments
C5_Witness ==
  \E k \in 1..Len(calls) :
    LET topic == InboundMsg(calls[k].msg).topic
    IN \E n \in 1..Len(topic) : \E m \in 1..Len(topic) :
         /\ WellFormedAs(topic, n, m)
         /\ Len(topic) >= n + m + 4
         /\ calls[k].measurement_name = SubSeq(topic, n + 3, n + m + 2)

\* C6: for a topic that is not /<node>/<measurement> optionally followed by
\* /<anything>, on_message invokes no store, logs a warning and returns
\* (stated for the messages whose parsed node name, if any, is configured,
\* with a store registered and no store raising).
C6_MalformedDropped ==
  \A i \in 1..Len(handled) :
    LET match == regex_match(handled[i].topic)
    IN (/\ ~WellFormed(handled[i].topic)
        /\ match.matched => Contains(node_names, match.node_name)
        /\ handled[i].nreg >= 1
        /\ ~StoreRaised(i))
       => /\ Len(CallsOf(i)) = 0
          /\ handled[i].warned
          /\ handled[i].ret = "return"

\* C7: a message during which only non-fatal conditions occurred (no store
\* raised) ends with on_message returning, so that the loop keeps running,
\* and the next well-formed message reaches every registered store.
C7_KeepsRunning ==
  \A i \in 1..Len(handled) :
    (handled[i].nreg >= 1 /\ ~StoreRaised(i))
    => /\ handled[i].ret = "return"
       /\ (/\ i > 1
           /\ WellFormed(handled[i].topic))
          => LET match == regex_match(handled[i].topic)
             IN FannedOut(i, match.node_name, match.measurement_name,
                          coerce(handled[i].payload))

\* C8: messages are handled one at a time in delivery order: a message is
\* begun only when every earlier one has ended, and every store_msg
\* invocation of a message precedes those of the next.
C8_OneAtATime ==
  /\ \A j \in 1..Len(calls) : \A k \in 1..Len(calls) :
       j < k => calls[j].msg <= calls[k].msg
  /\ \A i \in 1..Len(handled) : handled[i].seq = i
  /\ Len(handled) = delivered - (IF cur = NoMsg THEN 0 ELSE 1)
  /\ cur # NoMsg => cur.seq = delivered

\* two messages have each been passed to two stores
C8_Witness ==
  /\ Len(handled) = 2
  /\ Len(CallsOf(1)) >= 2
  /\ Len(CallsOf(2)) >= 2

\* C9: the value passed to store_msg is the number when the payload parses
\* as a floating-point number and the raw payload otherwise, and the message
\* is forwarded in both cases.  (The first part is stated of the last
\* invocation, the second of the last message handled: both logs only grow
\* at their ends.)
C9_ValueCoerced ==
  /\ calls # <<>>
     => LET call == calls[Len(calls)]
            payload == InboundMsg(call.msg).payload
            parsed == float(payload)
        IN /\ IF parsed.ok
              THEN /\ call.value.kind = "float"
                   /\ call.value = parsed.value
              ELSE /\ call.value.kind = "str"
                   /\ call.value.raw = payload
           /\ payload = Payload19_0
              => call.value =
                   [kind |-> "float", mant |-> 19, exp |-> 0, raw |-> <<>>]
           /\ payload = PayloadOk
              => call.value =
                   [kind |-> "str", mant |-> 0, exp |-> 0, raw |-> <<"o", "k">>]
  /\ handled # <<>>
     => LET i == Len(handled)
            match == regex_match(handled[i].topic)
        IN (/\ match.matched
            /\ Contains(node_names, match.node_name)
            /\ handled[i].nreg >= 1)
           => \E k \in 1..Len(calls) : calls[k].msg = i

\* a number and a raw payload have both been passed to a store
C9_Witness ==
  \E j \in 1..Len(calls) : \E k \in 1..Len(calls) :
    /\ calls[j].value.kind = "float"
    /\ calls[k].value.kind = "str"
    /\ calls[k].value.raw # <<>>

\* C10: once a caller has mutated a list the stores accessor returned,
\* self._stores is still the list of the registered stores, and a dispatch
\* invokes exactly them, in registration order.  (The dispatch is that of
\* the last message handled: handled only grows at its end.)
C10_StoresSnapshot ==
  (mutated /\ has_stores)
  => /\ _stores = registered
     /\ handled # <<>>
        => LET i == Len(handled)
               match == regex_match(handled[i].topic)
               invoked == CallsOf(i)
           IN (/\ handled[i].ret = "return"
               /\ match.matched
               /\ Contains(node_names, match.node_name))
              => /\ Len(invoked) = Len(RegisteredAt(i))
                 /\ \A k \in 1..Len(invoked) :
                      invoked[k].store = RegisteredAt(i)[k]

\* a returned list was mutated and a later message reached two stores
C10_Witness ==
  /\ mutated
  /\ \E i \in 1..Len(handled) : handled[i].ret = "return" /\ Len(CallsOf(i)) = 2

\* C11: when write_points raises a connection error, InfluxStore.store_msg
\* logs it and returns normally, and the point is not written again: the
\* write is the only one of its store_msg invocation.  (Stated of the last
\* write: writes only grows at its end.)
C11_ConnectionErrorSwallowed ==
  writes # <<>>
  => LET write == writes[Len(writes)]
     IN /\ write.call \in 1..Len(calls)
        /\ calls[write.call].store = "InfluxStore"
        /\ Len(writes) >= 2 => writes[Len(writes) - 1].call < write.call
        /\ write.outcome = "ConnectionError"
           => /\ calls[write.call].ret = "return"
              /\ write.logged

\* a write failed with a connection error and a later store was still invoked
C11_Witness ==
  \E k \in 1..Len(writes) :
    /\ writes[k].outcome = "ConnectionError"
    /\ writes[k].call < Len(calls)
    /\ calls[writes[k].call + 1].msg = calls[writes[k].call].msg

\* number of items of seq equal to x
Count(seq, x) == Cardinality({k \in 1..Len(seq) : seq[k] = x})

\* C12: register_store does not de-duplicate: self._stores holds every
\* registered store as often as it was registered, and a store registered k
\* times before a message receives store_msg k times for the message when
\* it is forwarded, at the positions of its registrations.  (Stated of the
\* last message handled.)
C12_NoDeduplication ==
  /\ has_stores => _stores = registered
  /\ handled # <<>>
     => LET i == Len(handled)
            match == regex_match(handled[i].topic)
            invoked == CallsOf(i)
        IN (/\ handled[i].ret = "return"
            /\ match.matched
            /\ Contains(node_names, match.node_name))
           => /\ \A s \in Stores :
                   Count([k \in 1..Len(invoked) |-> invoked[k].store], s)
                     = Count(RegisteredAt(i), s)
              /\ \A k \in 1..Len(RegisteredAt(i)) :
                   /\ k <= Len(invoked)
                   /\ invoked[k].store = RegisteredAt(i)[k]

\* a store registered twice has received one message twice
C12_Witness ==
  /\ Len(registered) >= 2
  /\ registered[1] = registered[2]
  /\ \E i \in 1..Len(handled) :
       /\ handled[i].ret = "return"
       /\ handled[i].nreg = 2
       /\ Len(CallsOf(i)) = 2
       /\ CallsOf(i)[1].store = CallsOf(i)[2].store

\* C13: after every successful connect, the first and each reconnect, the
\* session has exactly one subscription per configured node name, for the
\* pattern /{node_name}/#, in the order of the node names.
C13_SubscribedOnConnect ==
  connected
  => /\ connects >= 1
     /\ Len(subs) = Len(node_names)
     /\ \A i \in 1..Len(node_names) :
          /\ Len(subs[i]) = Len(node_names[i]) + 3
          /\ subs[i][1] = "/"
          /\ SubSeq(subs[i], 2, Len(node_names[i]) + 1) = node_names[i]
          /\ subs[i][Len(subs[i]) - 1] = "/"
          /\ subs[i][Len(subs[i])] = "#"

\* the session of a reconnect, with two node names configured
C13_Witness ==
  /\ connected
  /\ connects = 2
  /\ Len(subs) = 2

\* C14: when client.connect fails in start(), the failure leaves start():
\* the loop is never entered, the source never connects again, and no
\* message is dispatched to any store.
C14_ConnectFailurePropagates ==
  connect_failed
  => /\ phase = "dead"
     /\ ~connected
     /\ connects = 0
     /\ delivered = 0
     /\ cur = NoMsg
     /\ calls = <<>>
     /\ handled = <<>>

\* client.connect failed with a store registered
C14_Witness ==
  /\ connect_failed
  /\ Len(registered) >= 1

\* C15: a failure of a store that is not a connectivity failure is caught
\* nowhere: a write_points that raised it makes InfluxStore.store_msg raise
\* it, the store_msg invocation that raised it is the last invocation of
\* all, so the stores registered after it are not invoked, and on_message
\* ends by raising it.  (Stated of the last write and the last two
\* invocations: both logs only grow at their ends.)
C15_OtherFailurePropagates ==
  /\ writes # <<>>
     => LET write == writes[Len(writes)]
        IN write.outcome = "Error"
           => calls[write.call].ret = "Error" /\ ~write.logged
  /\ Len(calls) >= 2 => calls[Len(calls) - 1].ret # "Error"
  /\ (calls # <<>> /\ calls[Len(calls)].ret = "Error")
     => /\ cur = NoMsg
        /\ phase = "dead"
        /\ handled # <<>>
        /\ handled[Len(handled)].seq = calls[Len(calls)].msg
        /\ handled[Len(handled)].ret = "Error"

\* write_points raised such a failure in the first of two registered stores
C15_Witness ==
  /\ writes # <<>>
  /\ writes[Len(writes)].outcome = "Error"
  /\ handled # <<>>
  /\ handled[Len(handled)].nreg = 2
  /\ Len(CallsOf(Len(handled))) = 1

\* C16: a call InfluxStore.store_msg(node_name, measurement_name, value)
\* makes exactly one write_points call, of a list of exactly one point with
\* measurement measurement_name, the single tag sensor_node = node_name,
\* the single field value = value and nothing else (no timestamp); no other
\* store writes.  (Stated of the last invocation.)
C16_OnePointPerCall ==
  calls # <<>>
  => LET call == calls[Len(calls)]
     IN IF call.store = "InfluxStore"
        THEN /\ writes # <<>>
             /\ writes[Len(writes)].call = Len(calls)
             /\ Len(writes) >= 2 => writes[Len(writes) - 1].call < Len(calls)
             /\ Len(writes[Len(writes)].points) = 1
             /\ LET point == writes[Len(writes)].points[1]
                IN /\ DOMAIN point = {"measurement", "tags", "fields"}
                   /\ point.measurement = call.measurement_name
                   /\ DOMAIN point.tags = {"sensor_node"}
                   /\ point.tags.sensor_node = call.node_name
                   /\ DOMAIN point.fields = {"value"}
                   /\ point.fields.value = call.value
        ELSE writes # <<>> => writes[Len(writes)].call < Len(calls)

\* kitchen's temperature has been written
C16_Witness ==
  \E k \in 1..Len(writes) :
    /\ writes[k].points[1].measurement = Temperature
    /\ writes[k].points[1].tags.sensor_node = Kitchen
    /\ writes[k].points[1].fields.value.kind = "float"

\* C17 as claimed: every point that reaches write_points has a numeric
\* value field.  (Stated of the last write.)
C17_NumericValue ==
  writes # <<>>
  => writes[Len(writes)].points[1].fields.value.kind = "float"

\* C17 as amended: the value field of every point that reaches write_points
\* is the number when the payload of its message parses as a floating-point
\* number, and the raw payload, a string, otherwise.  (Stated of the last
\* write.)
C17_ValueNumberOrRawString ==
  writes # <<>>
  => LET write == writes[Len(writes)]
         value == write.points[1].fields.value
         payload == InboundMsg(calls[write.call].msg).payload
     IN IF float(payload).ok
        THEN value.kind = "float" /\ value = float(payload).value
        ELSE value.kind = "str" /\ value.raw = payload

\* the payload "ok" has been written as a string
C17_Witness ==
  \E k \in 1..Len(writes) :
    /\ writes[k].points[1].fields.value.kind = "str"
    /\ writes[k].points[1].fields.value.raw = PayloadOk

\* C18: with no store registered, a message with a well-formed topic (of a
\* configured node) causes no store_msg invocation and on_message returns
\* normally, and reading the stores accessor raises nothing.
C18_NoStoresRegistered ==
  /\ \A i \in 1..Len(handled) :
       (/\ handled[i].nreg = 0
        /\ WellFormed(handled[i].topic)
        /\ Contains(node_names, regex_match(handled[i].topic).node_name))
       => /\ handled[i].ret = "return"
          /\ Len(CallsOf(i)) = 0
  /\ ~(phase = "dead" /\ ~connect_failed /\ delivered = 0)

\* C19: dispatch iterates a copy of the registration list taken when the
\* fan-out of a message starts.  A store registered while on_message is
\* dispatching a message is not invoked for that message and does not
\* disturb the invocation of the remaining stores for it (the invocations of
\* a message no store raised for are exactly the stores registered before
\* it, in order), and it is invoked for every message with a well-formed
\* topic delivered afterwards (no earlier store raising for that message).
C19_RegisteredDuringDispatch ==
  \A i \in 1..Len(handled) :
    /\ (handled[i].matched /\ handled[i].ret = "return")
       => /\ Len(CallsOf(i)) = handled[i].nreg
          /\ \A k \in 1..Len(CallsOf(i)) :
               CallsOf(i)[k].store = registered[k]
    /\ \A j \in 1..handled[i].nreg :
         (/\ j > handled[1].nreg
          /\ WellFormed(handled[i].topic)
          /\ ~StoreRaised(i))
         => /\ Len(CallsOf(i)) >= j
            /\ CallsOf(i)[j].store = registered[j]

====
